---- MODULE Spec2Model ----
(***************************************************************************)
(* Authentication and credential-reset flow of the Smart Water Management  *)
(* application: registration (UserService.register_user over               *)
(* UserRepository), login, the password-reset request and confirm views,   *)
(* the module-level start_password_reset and finish_password_reset         *)
(* functions, UserService.set_password and the reset mail, with the        *)
(* database rows of auth_user and authentication_userprofile as the shared *)
(* state.                                                                  *)
(*                                                                         *)
(* Every ORM call is one database statement; the project configures no     *)
(* ATOMIC_REQUESTS and the repository opens no transaction, so each        *)
(* statement commits on its own and requests interleave between them.      *)
(***************************************************************************)
EXTENDS Integers, Sequences, FiniteSets, TLC

(***************************************************************************)
(* Bounds of the model.                                                    *)
(***************************************************************************)
MaxProcs == 2
MaxUserId == 2
MaxTime == 4
MaxIssued == 2
MaxSessions == 2
MaxSalt == 3
\* The smaller scope of the specifications that follow issued tokens through
\* logins and password changes
ScopeAccounts == 1
ScopeIssued == 1
ScopeTime == 1
\* The largest primary key the identifier codec is run on
MaxPk == 1100

(***************************************************************************)
(* Strings are sequences of one-character strings so that case conversion  *)
(* is computed character by character.                                     *)
(***************************************************************************)

LowerChar(c) == CASE c = "A" -> "a"
                  [] c = "B" -> "b"
                  [] OTHER -> c

UpperChar(c) == CASE c = "a" -> "A"
                  [] c = "b" -> "B"
                  [] OTHER -> c

\* str.lower()
Lower(s) == [i \in DOMAIN s |-> LowerChar(s[i])]

\* UPPER(...) as the database computes it for the iexact lookup
Upper(s) == [i \in DOMAIN s |-> UpperChar(s[i])]

\* email__iexact=email : UPPER(column) = UPPER(value)
IExact(col, val) == Upper(col) = Upper(val)

\* The email addresses submitted in the model: three spellings of one address
\* and one other address.
Emails == {<<"a", "b">>, <<"A", "b">>, <<"a", "B">>, <<"b", "b">>}

Procs == 1..MaxProcs

NoneStr == "<None>"
None == [kind |-> "None"]

\* The registration forms submitted in the model (everything but the email).
RegForms ==
  { [first_name |-> "Ann", last_name |-> "Lee", phone_no |-> NoneStr,
     mobile_no |-> "m1", address |-> "ad1", organization |-> "org1",
     password |-> "pw1"],
    [first_name |-> "Bob", last_name |-> "Ray", phone_no |-> "p2",
     mobile_no |-> "m2", address |-> NoneStr, organization |-> NoneStr,
     password |-> "pw2"] }

VARIABLES
  accounts,   \* rows of auth_user
  profiles,   \* rows of authentication_userprofile
  nextId,     \* next primary key of auth_user
  nextSalt,   \* next fresh salt of make_password
  now,        \* the clock
  reg,        \* per request: position and locals of register_view / register_user
  resetResponse, \* the last answer of password_reset_request_view
  lastStart,  \* the last call of start_password_reset and what it returned
  issued,     \* the (uidb64, token) pairs returned by start_password_reset
  sessions,   \* the sessions opened by auth.login, oldest first (user ids)
  passwordChanges, \* the completed password changes, oldest first (user ids)
  lastCall,   \* the last login, password or mail call and how it ended
  conf        \* per request: position and locals of password_reset_confirm_view

vars == <<accounts, profiles, nextId, nextSalt, now, reg, resetResponse,
          lastStart, issued, sessions, passwordChanges, lastCall, conf>>

resetVars == <<resetResponse, lastStart, issued>>

authVars == <<sessions, passwordChanges, lastCall, conf>>

\* make_password(password): a salted one-way hash, fresh salt on every call
make_password(raw, salt) == [alg |-> "pbkdf2_sha256", salt |-> salt, raw |-> raw]

IdleReg == [pc |-> "idle"]

IdleConf == [pc |-> "idle"]

Init ==
  /\ accounts = {}
  /\ profiles = {}
  /\ nextId = 1
  /\ nextSalt = 1
  /\ now = 0
  /\ reg = [p \in Procs |-> IdleReg]
  /\ resetResponse = None
  /\ lastStart = None
  /\ issued = {}
  /\ sessions = << >>
  /\ passwordChanges = << >>
  /\ lastCall = None
  /\ conf = [p \in Procs |-> IdleConf]

(***************************************************************************)
(* UserRepository                                                          *)
(***************************************************************************)

\* user.userprofile : the profile row of the user, or DoesNotExist
ProfileOf(profs, uid) == {pr \in profs : pr.user_id = uid}

\* UserRepository._to_entity
to_entity(profs, user) ==
  LET ps == ProfileOf(profs, user.id)
      profile_entity ==
        IF ps = {} THEN None
        ELSE LET profile == CHOOSE pr \in ps : TRUE
             IN [kind |-> "UserProfile", id |-> profile.id,
                 user_id |-> user.id, phone_no |-> profile.phone_no,
                 mobile_no |-> profile.mobile_no, address |-> profile.address,
                 organization |-> profile.organization]
  IN [kind |-> "User", id |-> user.id, email |-> user.email,
      first_name |-> user.first_name, last_name |-> user.last_name,
      is_active |-> user.is_active, is_staff |-> user.is_staff,
      is_superuser |-> user.is_superuser, date_joined |-> user.date_joined,
      profile |-> profile_entity]

\* The WHERE clause of UserModel.objects.get(email__iexact=email)
email_matches(col, email) == IExact(col, email)

\* Variant of get_by_email: the lookup compares with email= instead of
\* email__iexact=.
get_by_email_exact(accs, profs, email) ==
  LET found == {a \in accs : a.email = email}
  IN IF found = {} THEN None
     ELSE IF Cardinality(found) > 1
          THEN [kind |-> "MultipleObjectsReturned"]
          ELSE to_entity(profs, CHOOSE a \in found : TRUE)

\* UserRepository.get_by_email
get_by_email(accs, profs, email) ==
  LET found == {a \in accs : email_matches(a.email, email)}
  IN IF found = {} THEN None
     ELSE IF Cardinality(found) > 1
          THEN [kind |-> "MultipleObjectsReturned"]
          ELSE to_entity(profs, CHOOSE a \in found : TRUE)

\* Variant of create_username: the username is the email as passed.
create_username_raw(email) == email

\* username=email.lower() , the column auth_user.username is UNIQUE
create_username(email) == Lower(email)

\* Variant of new_user_row: the row keeps the repository's default
\* is_active=False instead of the value passed by register_user.
new_user_row_default_inactive(id, email, form, is_active, salt, t) ==
  [id |-> id, email |-> Lower(email), username |-> create_username(email),
   first_name |-> form.first_name, last_name |-> form.last_name,
   password |-> make_password(form.password, salt),
   is_active |-> FALSE, is_staff |-> FALSE, is_superuser |-> FALSE,
   last_login |-> << >>, date_joined |-> t]

\* Variant of the auth_user row: the email is stored as it was passed.
new_user_row_email_as_passed(id, email, form, is_active, salt, t) ==
  [id |-> id, email |-> email, username |-> create_username(email),
   first_name |-> form.first_name, last_name |-> form.last_name,
   password |-> make_password(form.password, salt),
   is_active |-> is_active, is_staff |-> FALSE, is_superuser |-> FALSE,
   last_login |-> << >>, date_joined |-> t]

\* The auth_user row built by UserModel.objects.create(...) in
\* create_user_with_profile; register_user passes is_active=True and leaves
\* is_staff and is_superuser at their defaults.
new_user_row(id, email, form, is_active, salt, t) ==
  [id |-> id, email |-> Lower(email), username |-> create_username(email),
   first_name |-> form.first_name, last_name |-> form.last_name,
   password |-> make_password(form.password, salt),
   is_active |-> is_active, is_staff |-> FALSE, is_superuser |-> FALSE,
   last_login |-> << >>, date_joined |-> t]

\* The row built by UserProfileModel.objects.create(...)
new_profile_row(id, uid, form) ==
  [id |-> id, user_id |-> uid, phone_no |-> form.phone_no,
   mobile_no |-> form.mobile_no, address |-> form.address,
   organization |-> form.organization]

\* The unique index on auth_user.username rejects the INSERT (the settings
\* name no AUTH_USER_MODEL, so UserModel is the framework's User, whose
\* username is unique and whose email is not)
username_taken(accs, row) == \E a \in accs : a.username = row.username

(***************************************************************************)
(* register_view / UserService.register_user, one request per process.     *)
(* pc: idle -> checked -> user_inserted -> done -> idle                    *)
(***************************************************************************)

\* RegistrationForm.clean_email, applied when the call comes through the view
clean_email(email) == Lower(email)

\* Variant of register_view_outcome: the except clause does not catch the
\* ValueError of register_user.
register_view_outcome_uncaught(result) ==
  IF result.kind = "User"
  THEN [response |-> "redirect:login",
        message |-> "Account created. Please log in.", field_error |-> NoneStr]
  ELSE [response |-> "exception", message |-> NoneStr, field_error |-> NoneStr]

\* What register_view answers for the result of register_user
register_view_outcome(result) ==
  IF result.kind = "User"
  THEN [response |-> "redirect:login",
        message |-> "Account created. Please log in.", field_error |-> NoneStr]
  ELSE IF result.kind = "ValueError"
       THEN [response |-> "render:authentication/register.html",
             message |-> NoneStr, field_error |-> "email"]
       ELSE [response |-> "exception", message |-> NoneStr,
             field_error |-> NoneStr]

RegRec(pc, email, form, uid, result) ==
  [pc |-> pc, email |-> email, form |-> form, uid |-> uid, result |-> result]

\* register_user: existing = get_by_email(email); raise ValueError if found
RegLookup(p) ==
  /\ reg[p].pc = "idle"
  /\ \E submitted \in Emails, form \in RegForms, viaView \in BOOLEAN :
       LET email == IF viaView THEN clean_email(submitted) ELSE submitted
           existing == get_by_email(accounts, profiles, email)
       IN reg' = [reg EXCEPT ![p] =
            IF existing = None
            THEN RegRec("checked", email, form, 0, None)
            ELSE IF existing.kind = "User"
                 THEN RegRec("done", email, form, 0,
                             [kind |-> "ValueError"])
                 ELSE RegRec("done", email, form, 0, existing)]
  /\ UNCHANGED <<accounts, profiles, nextId, nextSalt, now, resetVars, authVars>>

\* create_user_with_profile: UserModel.objects.create(...)
InsertUser(p) ==
  /\ reg[p].pc = "checked"
  /\ nextId <= MaxUserId
  /\ LET row == new_user_row(nextId, reg[p].email, reg[p].form, TRUE,
                             nextSalt, now)
     IN IF username_taken(accounts, row)
        THEN /\ reg' = [reg EXCEPT ![p].pc = "done",
                                   ![p].result = [kind |-> "IntegrityError"]]
             /\ UNCHANGED accounts
        ELSE /\ accounts' = accounts \cup {row}
             /\ reg' = [reg EXCEPT ![p].pc = "user_inserted", ![p].uid = row.id]
  /\ nextId' = nextId + 1
  /\ nextSalt' = nextSalt + 1
  /\ UNCHANGED <<profiles, now, resetVars, authVars>>

\* create_user_with_profile: UserProfileModel.objects.create(...) and the
\* return of self._to_entity(user)
InsertProfile(p) ==
  /\ reg[p].pc = "user_inserted"
  /\ LET user == CHOOSE a \in accounts : a.id = reg[p].uid
         row == new_profile_row(Cardinality(profiles) + 1, user.id, reg[p].form)
     IN /\ profiles' = profiles \cup {row}
        /\ reg' = [reg EXCEPT ![p].pc = "done",
                              ![p].result = to_entity(profiles \cup {row}, user)]
  /\ UNCHANGED <<accounts, nextId, nextSalt, now, resetVars, authVars>>

\* create_user_with_profile: the second INSERT raises a database error; the
\* first INSERT has already been committed (no transaction.atomic).
InsertProfileFails(p) ==
  /\ reg[p].pc = "user_inserted"
  /\ reg' = [reg EXCEPT ![p].pc = "done",
                        ![p].result = [kind |-> "DatabaseError"]]
  /\ UNCHANGED <<accounts, profiles, nextId, nextSalt, now, resetVars, authVars>>

\* register_view returns its response; the request is over
RegReturn(p) ==
  /\ reg[p].pc = "done"
  /\ reg' = [reg EXCEPT ![p] = IdleReg]
  /\ UNCHANGED <<accounts, profiles, nextId, nextSalt, now, resetVars, authVars>>

Next ==
  \/ \E p \in Procs : RegLookup(p)
  \/ \E p \in Procs : InsertUser(p)
  \/ \E p \in Procs : InsertProfile(p)
  \/ \E p \in Procs : InsertProfileFails(p)
  \/ \E p \in Procs : RegReturn(p)

Spec == Init /\ [][Next]_vars

(***************************************************************************)
(* Identifier codec: urlsafe_base64_encode(force_bytes(pk)) and the         *)
(* int(urlsafe_base64_decode(uidb64).decode()) of the confirm view.         *)
(* Bytes are numbers 0..255; an encoded identifier is a sequence of         *)
(* characters of the URL-safe alphabet.                                     *)
(***************************************************************************)
B64Alphabet ==
  << "A", "B", "C", "D", "E", "F", "G", "H", "I", "J", "K", "L", "M",
     "N", "O", "P", "Q", "R", "S", "T", "U", "V", "W", "X", "Y", "Z",
     "a", "b", "c", "d", "e", "f", "g", "h", "i", "j", "k", "l", "m",
     "n", "o", "p", "q", "r", "s", "t", "u", "v", "w", "x", "y", "z",
     "0", "1", "2", "3", "4", "5", "6", "7", "8", "9", "-", "_" >>

RECURSIVE Digits(_)
\* str(pk) as decimal digits
Digits(n) == IF n < 10 THEN <<n>> ELSE Append(Digits(n \div 10), n % 10)

\* force_bytes(pk): the ASCII bytes of str(pk)
force_bytes(pk) == LET ds == Digits(pk) IN [i \in DOMAIN ds |-> 48 + ds[i]]

RECURSIVE B64Sextets_whole_groups(_)
\* Variant of base64: only whole groups of three bytes are encoded, the
\* rest is dropped.
B64Sextets_whole_groups(bs) ==
  IF Len(bs) < 3 THEN << >>
  ELSE << bs[1] \div 4, (bs[1] % 4) * 16 + bs[2] \div 16,
          (bs[2] % 16) * 4 + bs[3] \div 64, bs[3] % 64 >>
       \o B64Sextets_whole_groups(SubSeq(bs, 4, Len(bs)))

RECURSIVE B64Sextets(_)
\* base64: three bytes give four 6-bit groups; a rest of one byte gives two
\* and a rest of two bytes gives three (the "=" padding is stripped)
B64Sextets(bs) ==
  IF Len(bs) = 0 THEN << >>
  ELSE IF Len(bs) = 1
       THEN << bs[1] \div 4, (bs[1] % 4) * 16 >>
       ELSE IF Len(bs) = 2
            THEN << bs[1] \div 4, (bs[1] % 4) * 16 + bs[2] \div 16,
                    (bs[2] % 16) * 4 >>
            ELSE << bs[1] \div 4, (bs[1] % 4) * 16 + bs[2] \div 16,
                    (bs[2] % 16) * 4 + bs[3] \div 64, bs[3] % 64 >>
                 \o B64Sextets(SubSeq(bs, 4, Len(bs)))

\* urlsafe_base64_encode
urlsafe_base64_encode(bs) ==
  LET sx == B64Sextets(bs) IN [i \in DOMAIN sx |-> B64Alphabet[sx[i] + 1]]

\* UserRepository.encode_user_id
encode_user_id(pk) == urlsafe_base64_encode(force_bytes(pk))

RECURSIVE B64Bytes(_)
\* the bytes of a sequence of 6-bit groups
B64Bytes(sx) ==
  IF Len(sx) < 2 THEN << >>
  ELSE IF Len(sx) = 2
       THEN << sx[1] * 4 + sx[2] \div 16 >>
       ELSE IF Len(sx) = 3
            THEN << sx[1] * 4 + sx[2] \div 16,
                    (sx[2] % 16) * 16 + sx[3] \div 4 >>
            ELSE << sx[1] * 4 + sx[2] \div 16,
                    (sx[2] % 16) * 16 + sx[3] \div 4,
                    (sx[3] % 4) * 64 + sx[4] >>
                 \o B64Bytes(SubSeq(sx, 5, Len(sx)))

RECURSIVE DigitsValue(_)
DigitsValue(bs) ==
  IF Len(bs) = 0 THEN 0
  ELSE 10 * DigitsValue(SubSeq(bs, 1, Len(bs) - 1)) + (bs[Len(bs)] - 48)

DecodeError == [ok |-> FALSE]

\* The characters of s that belong to the alphabet, in order: the decoder
\* drops every other character
RECURSIVE B64Data(_)
B64Data(s) ==
  IF Len(s) = 0 THEN << >>
  ELSE IF \E k \in DOMAIN B64Alphabet : B64Alphabet[k] = Head(s)
       THEN <<Head(s)>> \o B64Data(Tail(s))
       ELSE B64Data(Tail(s))

\* int(urlsafe_base64_decode(uidb64).decode()): the number, or the
\* ValueError of a wrong length, of missing padding or of bytes that are no
\* decimal number.  urlsafe_base64_decode appends len % 4 padding characters,
\* counted on the whole text; a rest of two data characters needs two of
\* them and a rest of three needs one.
decode_uid(uidb64) ==
  LET data == B64Data(uidb64)
      pads == Len(uidb64) % 4
      rest == Len(data) % 4
  IN IF \/ Len(data) = 0
        \/ rest = 1
        \/ (rest = 2 /\ pads < 2)
        \/ (rest = 3 /\ pads < 1)
     THEN DecodeError
     ELSE LET sx == [i \in DOMAIN data |->
                       (CHOOSE k \in DOMAIN B64Alphabet : B64Alphabet[k] = data[i]) - 1]
              bs == B64Bytes(sx)
          IN IF \A i \in DOMAIN bs : bs[i] \in 48..57
             THEN [ok |-> TRUE, value |-> DigitsValue(bs)]
             ELSE DecodeError

(***************************************************************************)
(* default_token_generator (PasswordResetTokenGenerator).  The keyed hash  *)
(* of the token is kept as the value it is computed from.  The clock       *)
(* counts the seconds the generator counts: the token's timestamp is in    *)
(* whole seconds and last_login enters the hash with its microseconds      *)
(* removed, so several requests can fall on one value of the clock.        *)
(* PASSWORD_RESET_TIMEOUT is not set by the project; the framework default *)
(* (three days in seconds) is scaled to three steps of the clock.          *)
(***************************************************************************)
PASSWORD_RESET_TIMEOUT == 3

\* _make_hash_value(user, timestamp)
make_hash_value(user, ts) ==
  <<user.id, user.password, user.last_login, ts, user.email>>

\* default_token_generator.make_token(user) at time t
make_token(user, t) == [kind |-> "token", ts |-> t, hash |-> make_hash_value(user, t)]

\* Variant of check_token: the age of the token is not looked at.
check_token_no_expiry(user, token, t) ==
  /\ token.kind = "token"
  /\ token = make_token(user, token.ts)

\* default_token_generator.check_token(user, token) at time t
check_token(user, token, t) ==
  /\ token.kind = "token"
  /\ token = make_token(user, token.ts)
  /\ ~ (t - token.ts > PASSWORD_RESET_TIMEOUT)

(***************************************************************************)
(* Password reset, phase 1                                                 *)
(***************************************************************************)

\* The attributes of class UserService: the fields and methods defined in
\* the class body.  start_password_reset and finish_password_reset are
\* defined at column 0 after the class, as functions of the module.
UserServiceAttributes ==
  {"user_repo", "get_user_for_login", "register_user", "set_password"}

\* UserRepository.get_orm_user_by_id
get_orm_user_by_id(accs, id) == CHOOSE a \in accs : a.id = id

\* Variant of start_password_reset: the token is made from the domain
\* entity returned by get_by_email, which carries no password.
start_password_reset_from_entity(accs, profs, email, t) ==
  LET user == get_by_email(accs, profs, email)
  IN IF user = None THEN None
     ELSE IF user.kind # "User" THEN user
          ELSE [kind |-> "AttributeError"]

\* Variant of start_password_reset: an unknown email falls back to the
\* first user of the table.
start_password_reset_first_user(accs, profs, email, t) ==
  LET user == get_by_email(accs, profs, email)
  IN IF user # None /\ user.kind # "User" THEN user
     ELSE IF user = None /\ accs = {} THEN None
          ELSE LET orm_user == IF user = None
                               THEN CHOOSE a \in accs : \A b \in accs : a.id <= b.id
                               ELSE get_orm_user_by_id(accs, user.id)
               IN [kind |-> "pair", uidb64 |-> encode_user_id(orm_user.id),
                   token |-> make_token(orm_user, t)]

\* start_password_reset(self, email), the function of module user_service
start_password_reset(accs, profs, email, t) ==
  LET user == get_by_email(accs, profs, email)
  IN IF user = None THEN None
     ELSE IF user.kind # "User" THEN user
          ELSE LET orm_user == get_orm_user_by_id(accs, user.id)
               IN [kind |-> "pair", uidb64 |-> encode_user_id(orm_user.id),
                   token |-> make_token(orm_user, t)]

\* Variant of start_password_reset: the call stamps the time on the row it
\* issues a token for (as update_last_login would).
start_password_reset_tables_stamping(accs, profs, email, t) ==
  [accounts |-> {IF Lower(a.email) = Lower(email)
                 THEN [a EXCEPT !.last_login = <<t>>] ELSE a : a \in accs},
   profiles |-> profs]

\* The tables after start_password_reset(email): the function reads through
\* repo.get_by_email and User.objects.get and calls no save, create or delete.
start_password_reset_tables(accs, profs, email, t) ==
  [accounts |-> accs, profiles |-> profs]

NeutralMessage == "If an account exists for that email, a reset link has been sent."

\* Variant of password_reset_request_view: the view looks the account up
\* and reports an unknown email.
password_reset_request_view_leaky(accs, profs, email, t) ==
  IF get_by_email(accs, profs, email) = None
  THEN [kind |-> "response", message |-> "No account with that email.",
        redirect |-> "password_reset"]
  ELSE [kind |-> "response", message |-> NeutralMessage,
        redirect |-> "password_reset_done"]

\* password_reset_request_view, POST with a valid form: what the requester
\* gets.  user_service.start_password_reset is an attribute lookup on the
\* UserService instance.
password_reset_request_view(accs, profs, email, t) ==
  IF "start_password_reset" \notin UserServiceAttributes
  THEN [kind |-> "exception", message |-> "AttributeError", redirect |-> NoneStr]
  ELSE LET uid_token == start_password_reset(accs, profs, email, t)
       IN IF uid_token.kind \notin {"None", "pair"}
          THEN [kind |-> "exception", message |-> uid_token.kind,
                redirect |-> NoneStr]
          ELSE [kind |-> "response", message |-> NeutralMessage,
                redirect |-> "password_reset_done"]

\* Variant of the gate: the token is not verified.
password_reset_confirm_gate_any_token(accs, uidb64, token, t) ==
  LET uid == decode_uid(uidb64)
      found == IF uid.ok THEN {a \in accs : a.id = uid.value} ELSE {}
  IN IF found = {} THEN None
     ELSE [kind |-> "accepted", user_id |-> (CHOOSE a \in found : TRUE).id]

\* Variant of the gate: the token is verified against whichever account it
\* fits, not against the account the identifier names.
password_reset_confirm_gate_any_account(accs, uidb64, token, t) ==
  LET uid == decode_uid(uidb64)
      found == IF uid.ok THEN {a \in accs : a.id = uid.value} ELSE {}
  IN IF found = {} THEN None
     ELSE IF \E a \in accs : check_token(a, token, t)
          THEN [kind |-> "accepted", user_id |-> (CHOOSE a \in found : TRUE).id]
          ELSE None

\* The gate of password_reset_confirm_view: the user the link is accepted
\* for, or None ("Invalid or expired password reset link.")
password_reset_confirm_gate(accs, uidb64, token, t) ==
  LET uid == decode_uid(uidb64)
      found == IF uid.ok THEN {a \in accs : a.id = uid.value} ELSE {}
  IN IF found = {} THEN None
     ELSE LET user == CHOOSE a \in found : TRUE
          IN IF check_token(user, token, t)
             THEN [kind |-> "accepted", user_id |-> user.id]
             ELSE None

(***************************************************************************)
(* Requests served one at a time                                           *)
(***************************************************************************)

\* A whole registration request: register_user from its lookup to the
\* return of create_user_with_profile, no other request in between.
RegisterRequest ==
  /\ nextId <= MaxUserId
  /\ \E email \in Emails, form \in RegForms :
       LET existing == get_by_email(accounts, profiles, email)
           row == new_user_row(nextId, email, form, TRUE, nextSalt, now)
       IN IF existing = None /\ ~username_taken(accounts, row)
          THEN /\ accounts' = accounts \cup {row}
               /\ profiles' = profiles \cup
                    {new_profile_row(Cardinality(profiles) + 1, row.id, form)}
               /\ nextId' = nextId + 1
               /\ nextSalt' = nextSalt + 1
          ELSE /\ UNCHANGED <<accounts, profiles>>
               /\ nextId' = IF existing = None THEN nextId + 1 ELSE nextId
               /\ nextSalt' = IF existing = None THEN nextSalt + 1 ELSE nextSalt
  /\ UNCHANGED <<now, reg, resetVars, authVars>>

\* Some account has this email up to letter case (used to record, next to
\* an answer, the case it was given in)
Registered(accs, email) == \E a \in accs : Lower(a.email) = Lower(email)

\* POST /auth/password-reset/ with a well-formed email
PasswordResetRequest ==
  /\ \E email \in Emails :
       resetResponse' =
         [email |-> email, existed |-> Registered(accounts, email),
          outcome |-> password_reset_request_view(accounts, profiles, email, now)]
  /\ UNCHANGED <<accounts, profiles, nextId, nextSalt, now, reg, lastStart, issued, authVars>>

\* A call start_password_reset(service, email) of the module's function,
\* with the UserService as its first argument
StartPasswordReset ==
  /\ \E email \in Emails :
       LET result == start_password_reset(accounts, profiles, email, now)
       IN /\ lastStart' = [email |-> email, kind |-> result.kind,
                           matched |-> Registered(accounts, email)]
          /\ IF result.kind = "pair"
             THEN /\ issued' = issued \cup
                       {[email |-> email, uidb64 |-> result.uidb64,
                         token |-> result.token, at |-> now,
                         sessions |-> sessions,
                         changes |-> passwordChanges,
                         users |-> {a \in accounts : Lower(a.email) = Lower(email)}]}
                  /\ Cardinality(issued') <= MaxIssued
             ELSE issued' = issued
          /\ LET tables == start_password_reset_tables(accounts, profiles, email, now)
             IN /\ accounts' = tables.accounts
                /\ profiles' = tables.profiles
  /\ UNCHANGED <<nextId, nextSalt, now, reg, resetResponse, authVars>>

\* A day passes
Tick ==
  /\ now < MaxTime
  /\ now' = now + 1
  /\ UNCHANGED <<accounts, profiles, nextId, nextSalt, reg, resetVars, authVars>>

\* Registrations and password-reset requests through the views
NextView ==
  \/ RegisterRequest
  \/ PasswordResetRequest
  \/ Tick

SpecView == Init /\ [][NextView]_vars

\* Registrations and calls of start_password_reset
NextReset ==
  \/ RegisterRequest
  \/ StartPasswordReset
  \/ Tick

SpecReset == Init /\ [][NextReset]_vars

(***************************************************************************)
(* Login: LoginForm.clean and login_view                                   *)
(***************************************************************************)

\* The raw passwords typed in the model
Passwords == {"pw1", "pw2"}

\* user.check_password(raw)
check_password(raw, hashed) == hashed.raw = raw

\* Variant of authenticate: the backend does not compare the password.
authenticate_any_password(accs, username, password) ==
  LET found == {a \in accs : a.username = username}
  IN IF found = {} THEN None
     ELSE LET user == CHOOSE a \in found : TRUE
          IN IF user.is_active THEN user ELSE None

\* authenticate(request, username=, password=) with the model backend:
\* the user with that username, if the password matches and the user is
\* active; None otherwise
authenticate(accs, username, password) ==
  LET found == {a \in accs : a.username = username}
  IN IF found = {} THEN None
     ELSE LET user == CHOOSE a \in found : TRUE
          IN IF check_password(password, user.password) /\ user.is_active
             THEN user
             ELSE None

\* UserService.get_user_for_login
get_user_for_login(accs, profs, email) == get_by_email(accs, profs, email)

\* How a POST to login_view ends for these credentials
login_outcome(accs, profs, username, password) ==
  LET user == authenticate(accs, username, password)
  IN IF user = None THEN "Invalid username or password."
     ELSE IF ~user.is_active THEN "This account is inactive."
          ELSE IF get_user_for_login(accs, profs, user.email) = None
               THEN "User not allowed to log in."
               ELSE "Logged in successfully."

\* update_last_login, run by auth.login: last_login = now
with_last_login(user, t) == [user EXCEPT !.last_login = <<t>>]

\* POST /auth/login/
Login ==
  /\ \E username \in Emails, password \in Passwords :
       LET outcome == login_outcome(accounts, profiles, username, password)
       IN /\ lastCall' = [op |-> "login", username |-> username,
                          password |-> password, outcome |-> outcome]
          /\ IF outcome = "Logged in successfully."
             THEN LET user == authenticate(accounts, username, password)
                  IN /\ Len(sessions) < MaxSessions
                     /\ sessions' = Append(sessions, user.id)
                     /\ accounts' = (accounts \ {user})
                                      \cup {with_last_login(user, now)}
             ELSE UNCHANGED <<accounts, sessions>>
  /\ UNCHANGED <<profiles, nextId, nextSalt, now, reg, resetVars,
                 passwordChanges, conf>>

\* The admin site (django.contrib.admin): a staff member clears the
\* "active" flag of a user
AdminDeactivate ==
  /\ \E user \in accounts :
       /\ user.is_active
       /\ accounts' = (accounts \ {user}) \cup {[user EXCEPT !.is_active = FALSE]}
  /\ UNCHANGED <<profiles, nextId, nextSalt, now, reg, resetVars, authVars>>

\* Registrations, logins and deactivations
NextLogin ==
  \/ RegisterRequest
  \/ Login
  \/ AdminDeactivate

SpecLogin == Init /\ [][NextLogin]_vars

\* The requests of the token specifications, within their scope; a login
\* that is turned away changes nothing and is left out there.
ScopedRegister == Cardinality(accounts) < ScopeAccounts /\ RegisterRequest

ScopedStart == Cardinality(issued) < ScopeIssued /\ StartPasswordReset

ScopedTick == now < ScopeTime /\ Tick

LoginAccepted == Login /\ lastCall'.outcome = "Logged in successfully."

\* Registrations, calls of start_password_reset and logins
NextLoginToken ==
  \/ ScopedRegister
  \/ ScopedStart
  \/ LoginAccepted
  \/ ScopedTick

SpecLoginToken == Init /\ [][NextLoginToken]_vars

(***************************************************************************)
(* Password change: UserService.set_password, finish_password_reset and    *)
(* UserRepository.set_password                                             *)
(***************************************************************************)

\* The identifiers a caller can pass: those of the rows and one beyond
UserIds == 1..(MaxUserId + 1)

\* Variant of UserRepository.set_password: the salt of the stored hash is
\* kept when the password is hashed again.
repo_set_password_same_salt(accs, user_id, raw_password, salt) ==
  LET found == {a \in accs : a.id = user_id}
  IN IF found = {} THEN [kind |-> "DoesNotExist", accounts |-> accs]
     ELSE LET user == CHOOSE a \in found : TRUE
              hashed == make_password(raw_password, user.password.salt)
          IN [kind |-> "ok",
              accounts |-> (accs \ {user}) \cup {[user EXCEPT !.password = hashed]}]

\* Variant of UserRepository.set_password: the new hash is not saved.
repo_set_password_unsaved(accs, user_id, raw_password, salt) ==
  IF {a \in accs : a.id = user_id} = {}
  THEN [kind |-> "DoesNotExist", accounts |-> accs]
  ELSE [kind |-> "ok", accounts |-> accs]

\* Variant of UserRepository.set_password: an UPDATE of the rows with that
\* id, which raises nothing when there is none.
repo_set_password_update(accs, user_id, raw_password, salt) ==
  [kind |-> "ok",
   accounts |-> {IF a.id = user_id
                 THEN [a EXCEPT !.password = make_password(raw_password, salt)]
                 ELSE a : a \in accs}]

\* Variant of UserRepository.set_password: the account is also switched to
\* inactive.
repo_set_password_deactivating(accs, user_id, raw_password, salt) ==
  LET found == {a \in accs : a.id = user_id}
  IN IF found = {} THEN [kind |-> "DoesNotExist", accounts |-> accs]
     ELSE LET user == CHOOSE a \in found : TRUE
              hashed == make_password(raw_password, salt)
          IN [kind |-> "ok",
              accounts |-> (accs \ {user})
                 \cup {[user EXCEPT !.password = hashed, !.is_active = FALSE]}]

\* Variant of UserRepository.set_password: the raw password is written to
\* the column as it is (alg "plain": no hash was applied).
repo_set_password_plain(accs, user_id, raw_password, salt) ==
  LET found == {a \in accs : a.id = user_id}
  IN IF found = {} THEN [kind |-> "DoesNotExist", accounts |-> accs]
     ELSE LET user == CHOOSE a \in found : TRUE
              stored == [alg |-> "plain", salt |-> 0, raw |-> raw_password]
          IN [kind |-> "ok",
              accounts |-> (accs \ {user}) \cup {[user EXCEPT !.password = stored]}]

\* UserRepository.set_password(user_id, raw_password): the rows afterwards,
\* or UserModel.DoesNotExist raised by objects.get with the rows untouched
repo_set_password(accs, user_id, raw_password, salt) ==
  LET found == {a \in accs : a.id = user_id}
  IN IF found = {} THEN [kind |-> "DoesNotExist", accounts |-> accs]
     ELSE LET user == CHOOSE a \in found : TRUE
              hashed == make_password(raw_password, salt)
          IN [kind |-> "ok",
              accounts |-> (accs \ {user}) \cup {[user EXCEPT !.password = hashed]}]

\* UserService.set_password(user_id, new_password)
set_password(accs, user_id, new_password, salt) ==
  repo_set_password(accs, user_id, new_password, salt)

\* finish_password_reset(self, user_id, new_password), the module function
finish_password_reset(accs, user_id, new_password, salt) ==
  repo_set_password(accs, user_id, new_password, salt)

\* What a password call leaves behind besides the rows: the log of
\* completed changes and the record of the call
PasswordCallRecord(op, user_id, new_password, result) ==
  /\ lastCall' = [op |-> op, user_id |-> user_id, password |-> new_password,
                  outcome |-> result.kind, salt |-> nextSalt]
  /\ IF result.kind = "ok"
     THEN /\ nextSalt <= MaxSalt
          /\ nextSalt' = nextSalt + 1
          /\ passwordChanges' = Append(passwordChanges, user_id)
     ELSE UNCHANGED <<nextSalt, passwordChanges>>
  /\ UNCHANGED <<profiles, nextId, now, reg, resetVars, sessions, conf>>

\* A call of UserService.set_password
SetPassword ==
  \E user_id \in UserIds, new_password \in Passwords :
    LET result == set_password(accounts, user_id, new_password, nextSalt)
    IN /\ accounts' = result.accounts
       /\ PasswordCallRecord("set_password", user_id, new_password, result)

\* A call of finish_password_reset
FinishPasswordReset ==
  \E user_id \in UserIds, new_password \in Passwords :
    LET result == finish_password_reset(accounts, user_id, new_password, nextSalt)
    IN /\ accounts' = result.accounts
       /\ PasswordCallRecord("finish_password_reset", user_id, new_password,
                             result)

\* Registrations, issued tokens and password changes
NextPassword ==
  \/ ScopedRegister
  \/ ScopedStart
  \/ SetPassword
  \/ FinishPasswordReset

SpecPassword == Init /\ [][NextPassword]_vars

\* Registrations, password changes and deactivations
NextPasswordLogin ==
  \/ ScopedRegister
  \/ FinishPasswordReset
  \/ AdminDeactivate

SpecPasswordLogin == Init /\ [][NextPasswordLogin]_vars

\* Registrations of several accounts, password changes and deactivations
NextPasswordFrame ==
  \/ RegisterRequest
  \/ SetPassword
  \/ FinishPasswordReset
  \/ AdminDeactivate

SpecPasswordFrame == Init /\ [][NextPasswordFrame]_vars

(***************************************************************************)
(* password_reset_confirm_view, one request per process.                   *)
(* pc: idle -> gated -> done -> idle, or idle -> done -> idle when the     *)
(* link is turned away                                                     *)
(***************************************************************************)

\* The identifiers a link can carry: the encoded ids of the accounts in
\* scope and of one beyond, one of a length no base64 text has, and one
\* whose bytes are no number
ConfirmUids ==
  {encode_user_id(id) : id \in 1..(ScopeAccounts + 1)} \cup {<<"M">>, <<"Y", "Q">>}

\* The tokens a link can carry: those handed out, and one that is none
ConfirmTokens == {r.token : r \in issued} \cup {[kind |-> "garbage"]}

InvalidLink ==
  [kind |-> "response", message |-> "Invalid or expired password reset link.",
   redirect |-> "password_reset"]

PasswordUpdated ==
  [kind |-> "response", message |-> "Password updated. Please log in.",
   redirect |-> "login"]

\* Variant of the gate's answer: the message tells why the link failed.
confirm_rejection_telling(accs, uidb64) ==
  IF ~ decode_uid(uidb64).ok
  THEN [kind |-> "response", message |-> "Malformed password reset link.",
        redirect |-> "password_reset"]
  ELSE InvalidLink

\* What the view answers when the gate turns the link away
confirm_rejection(accs, uidb64) == InvalidLink

\* user_service.finish_password_reset(user_id=..., new_password=...) in the
\* view: an attribute lookup on the UserService instance, then the call.
\* The answer of the view, the rows afterwards, and whether a hash was stored
confirm_finish(accs, user_id, new_password, salt) ==
  IF "finish_password_reset" \notin UserServiceAttributes
  THEN [outcome |-> [kind |-> "exception", message |-> "AttributeError",
                     redirect |-> NoneStr],
        accounts |-> accs, stored |-> FALSE]
  ELSE LET result == finish_password_reset(accs, user_id, new_password, salt)
       IN IF result.kind = "ok"
          THEN [outcome |-> PasswordUpdated, accounts |-> result.accounts,
                stored |-> TRUE]
          ELSE [outcome |-> [kind |-> "exception", message |-> result.kind,
                             redirect |-> NoneStr],
                accounts |-> accs, stored |-> FALSE]

\* password_reset_confirm_view for a POST with a valid form
password_reset_confirm_view(accs, uidb64, token, t, new_password, salt) ==
  LET gate == password_reset_confirm_gate(accs, uidb64, token, t)
  IN IF gate = None
     THEN [outcome |-> confirm_rejection(accs, uidb64), accounts |-> accs,
           stored |-> FALSE]
     ELSE confirm_finish(accs, gate.user_id, new_password, salt)

\* The view up to the gate
ConfirmGate(p) ==
  /\ conf[p].pc = "idle"
  /\ \E uidb64 \in ConfirmUids, token \in ConfirmTokens, new_password \in Passwords :
       LET gate == password_reset_confirm_gate(accounts, uidb64, token, now)
       IN conf' = [conf EXCEPT ![p] =
            IF gate = None
            THEN [pc |-> "done", gated |-> FALSE,
                  outcome |-> confirm_rejection(accounts, uidb64)]
            ELSE [pc |-> "gated", uidb64 |-> uidb64, token |-> token,
                  user_id |-> gate.user_id, new_password |-> new_password]]
  /\ UNCHANGED <<accounts, profiles, nextId, nextSalt, now, reg, resetVars,
                 sessions, passwordChanges, lastCall>>

\* The view from the valid form to its answer
ConfirmFinish(p) ==
  /\ conf[p].pc = "gated"
  /\ LET result == confirm_finish(accounts, conf[p].user_id,
                                  conf[p].new_password, nextSalt)
     IN /\ accounts' = result.accounts
        /\ conf' = [conf EXCEPT ![p] =
             [pc |-> "done", gated |-> TRUE, user_id |-> conf[p].user_id,
              new_password |-> conf[p].new_password,
              outcome |-> result.outcome]]
        /\ IF result.stored
           THEN /\ nextSalt <= MaxSalt
                /\ nextSalt' = nextSalt + 1
                /\ passwordChanges' = Append(passwordChanges, conf[p].user_id)
           ELSE UNCHANGED <<nextSalt, passwordChanges>>
  /\ UNCHANGED <<profiles, nextId, now, reg, resetVars, sessions, lastCall>>

\* The answer goes out
ConfirmReturn(p) ==
  /\ conf[p].pc = "done"
  /\ conf' = [conf EXCEPT ![p] = IdleConf]
  /\ UNCHANGED <<accounts, profiles, nextId, nextSalt, now, reg, resetVars,
                 sessions, passwordChanges, lastCall>>

\* Registrations, issued pairs and reset links followed side by side
NextConfirm ==
  \/ ScopedRegister
  \/ ScopedStart
  \/ \E p \in Procs : ConfirmGate(p) \/ ConfirmFinish(p) \/ ConfirmReturn(p)

SpecConfirm == Init /\ [][NextConfirm]_vars

\* The passwords the form can hold; the form is not looked at when the
\* link is turned away
FormPasswords(accs, uidb64, token, t) ==
  IF password_reset_confirm_gate(accs, uidb64, token, t) = None
  THEN {CHOOSE pw \in Passwords : TRUE}
  ELSE Passwords

\* A reset link followed by one requester, start to end
ConfirmRequest ==
  /\ \E uidb64 \in ConfirmUids, token \in ConfirmTokens :
     \E new_password \in FormPasswords(accounts, uidb64, token, now) :
       LET result == password_reset_confirm_view(accounts, uidb64, token, now,
                                                 new_password, nextSalt)
       IN /\ accounts' = result.accounts
          /\ lastCall' = [op |-> "confirm", uidb64 |-> uidb64, token |-> token,
                          outcome |-> result.outcome]
          /\ IF result.stored
             THEN /\ nextSalt <= MaxSalt
                  /\ nextSalt' = nextSalt + 1
                  /\ passwordChanges' = Append(passwordChanges,
                       password_reset_confirm_gate(accounts, uidb64, token, now).user_id)
             ELSE UNCHANGED <<nextSalt, passwordChanges>>
  /\ UNCHANGED <<profiles, nextId, now, reg, resetVars, sessions, conf>>

\* The clock, looked at from the first issued pair on
TickAfterIssue == issued # {} /\ Tick

\* Registrations, issued pairs, the clock and reset links followed
NextConfirmLink ==
  \/ ScopedRegister
  \/ ScopedStart
  \/ ConfirmRequest
  \/ TickAfterIssue

SpecConfirmLink == Init /\ [][NextConfirmLink]_vars

(***************************************************************************)
(* DjangoEmailService.send_password_reset_email                            *)
(***************************************************************************)

\* What send_mail does with a message: it is handed over, or the backend
\* raises (fail_silently is left at False)
Transports == {"delivers", "raises"}

\* The decimal digits of n as characters
DigitChars(n) ==
  LET ds == Digits(n) IN [i \in DOMAIN ds |-> B64Alphabet[53 + ds[i]]]

\* The characters of a raw password
RawChars(raw) ==
  CASE raw = "pw1" -> <<"p", "w", "1">>
    [] raw = "pw2" -> <<"p", "w", "2">>

\* The text of the password column: algorithm, salt and hash, "$" between
PasswordText(stored) ==
  <<"p", "b", "k", "d", "f", "2", "_", "s", "h", "a", "2", "5", "6", "$">>
    \o DigitChars(stored.salt) \o <<"$">> \o RawChars(stored.raw)

\* str() of a time that may be None
TimeText(t) == IF t = << >> THEN <<"N", "o", "n", "e">> ELSE DigitChars(t[1])

\* default_token_generator._make_hash_value(user, timestamp) as the text it
\* is: f"{user.pk}{user.password}{login_timestamp}{timestamp}{email}",
\* login_timestamp being empty when there was no login
hash_value_text(user, timestamp) ==
  DigitChars(user.id) \o PasswordText(user.password)
    \o (IF user.last_login = << >> THEN << >> ELSE DigitChars(user.last_login[1]))
    \o TimeText(timestamp) \o user.email

\* send_password_reset_email(to_email=, token=): how the call ends.  Nothing
\* in the method catches an exception.  The identifier segment of the link
\* is the hash-value text; reverse() has no URL for a segment with "/" in
\* it, which the base64 text of a stored hash may contain.
send_password_reset_email(accs, to_email, token, hash_has_slash, transport) ==
  LET found == {a \in accs : IExact(a.email, to_email)}
  IN IF found = {} THEN [kind |-> "DoesNotExist"]
     ELSE IF Cardinality(found) > 1 THEN [kind |-> "MultipleObjectsReturned"]
          ELSE LET user == CHOOSE a \in found : TRUE
                   uid == hash_value_text(user, user.last_login)
               IN IF hash_has_slash THEN [kind |-> "NoReverseMatch"]
                  ELSE IF transport = "raises" THEN [kind |-> "SMTPException"]
                       ELSE [kind |-> "returned",
                             link |-> [uidb64 |-> uid, token |-> token]]

\* A call of send_password_reset_email
SendPasswordResetEmail ==
  /\ \E to_email \in Emails, token \in ConfirmTokens, hash_has_slash \in BOOLEAN,
        transport \in Transports :
       lastCall' = [op |-> "send_password_reset_email", to_email |-> to_email,
                    transport |-> transport,
                    outcome |-> send_password_reset_email(accounts, to_email,
                                  token, hash_has_slash, transport)]
  /\ UNCHANGED <<accounts, profiles, nextId, nextSalt, now, reg, resetVars,
                 sessions, passwordChanges, conf>>

\* Registrations and reset mails
NextMail ==
  \/ RegisterRequest
  \/ SendPasswordResetEmail

SpecMail == Init /\ [][NextMail]_vars

\* Registrations, issued pairs and reset mails
NextMailLink ==
  \/ ScopedRegister
  \/ ScopedStart
  \/ SendPasswordResetEmail

SpecMailLink == Init /\ [][NextMailLink]_vars

(***************************************************************************)
(* The identifier codec on its own                                         *)
(***************************************************************************)

\* UserRepository.encode_user_id(pk)
EncodeUserId ==
  /\ \E pk \in 1..MaxPk :
       lastCall' = [op |-> "encode_user_id", pk |-> pk,
                    uidb64 |-> encode_user_id(pk)]
  /\ UNCHANGED <<accounts, profiles, nextId, nextSalt, now, reg, resetVars,
                 sessions, passwordChanges, conf>>

\* The confirm view decodes the identifier it was handed
DecodeUid ==
  /\ lastCall # None
  /\ lastCall.op = "encode_user_id"
  /\ lastCall' = [op |-> "decode_uid", pk |-> lastCall.pk,
                  uidb64 |-> lastCall.uidb64,
                  uid |-> decode_uid(lastCall.uidb64)]
  /\ UNCHANGED <<accounts, profiles, nextId, nextSalt, now, reg, resetVars,
                 sessions, passwordChanges, conf>>

NextCodec ==
  \/ EncodeUserId
  \/ DecodeUid

SpecCodec == Init /\ [][NextCodec]_vars

(***************************************************************************)
(* Properties of registration                                              *)
(***************************************************************************)

SameNormalizedEmail(e1, e2) == Lower(e1) = Lower(e2)

\* The lookup of the call of p found no account
PassedLookup(p) ==
  /\ reg[p].pc \in {"checked", "user_inserted", "done"}
  /\ reg[p].result.kind \notin {"ValueError", "MultipleObjectsReturned"}

\* C1: in every reachable state, under any interleaving of register_user
\* calls, no two accounts have the same lowercase-normalized email.
C1_UniqueNormalizedEmail ==
  \A a, b \in accounts : SameNormalizedEmail(a.email, b.email) => a = b

\* Two calls with the same normalized email both passed the lookup, one
\* inserted its account and the other was rejected by the database.
C1_Witness ==
  \E p, q \in Procs :
    /\ p # q
    /\ reg[p].pc = "done" /\ reg[q].pc = "done"
    /\ SameNormalizedEmail(reg[p].email, reg[q].email)
    /\ reg[p].email # reg[q].email
    /\ reg[p].result.kind = "User"
    /\ reg[q].result.kind = "IntegrityError"
    /\ Cardinality(accounts) = 1

\* C2: when two register_user calls with the same normalized email both
\* pass the lookup before either inserts (and the database executes every
\* statement), exactly one returns an Account and the other fails with the
\* duplicate-email error that register_view catches (ValueError).
C2_ConcurrentDuplicateIsDomainError ==
  \A p, q \in Procs :
    ( /\ p # q
      /\ reg[p].pc = "done" /\ reg[q].pc = "done"
      /\ PassedLookup(p) /\ PassedLookup(q)
      /\ SameNormalizedEmail(reg[p].email, reg[q].email)
      /\ reg[p].result.kind # "DatabaseError"
      /\ reg[q].result.kind # "DatabaseError" )
    => {reg[p].result.kind, reg[q].result.kind} = {"User", "ValueError"}

\* C3: a register_user call whose email matches an existing account
\* case-insensitively fails with ValueError and leaves accounts and profiles
\* unchanged; register_view re-renders the form with an email field error
\* and does not redirect to login.
C3_RegisterExistingFails ==
  [][\A p \in Procs :
       ( /\ reg[p].pc = "idle"
         /\ reg'[p].pc # "idle"
         /\ \E a \in accounts : SameNormalizedEmail(a.email, reg'[p].email) )
       => /\ reg'[p].pc = "done"
          /\ reg'[p].result.kind = "ValueError"
          /\ accounts' = accounts
          /\ profiles' = profiles
          /\ register_view_outcome(reg'[p].result).field_error = "email"
          /\ register_view_outcome(reg'[p].result).response
               = "render:authentication/register.html"]_vars

\* A call with another spelling of a registered email was rejected.
C3_Witness ==
  \E p \in Procs : \E a \in accounts :
    /\ reg[p].pc = "done"
    /\ reg[p].result.kind = "ValueError"
    /\ a.email # reg[p].email
    /\ SameNormalizedEmail(a.email, reg[p].email)

C5_AccountHasProfile ==
  \A a \in accounts : ProfileOf(profiles, a.id) # {}

\* C6: for every account and every email that differs from the stored email
\* only in letter case, get_by_email returns that account; for an email
\* matching no account case-insensitively it returns None.
C6_GetByEmailCaseInsensitive ==
  \A e \in Emails :
    LET same == {a \in accounts : SameNormalizedEmail(a.email, e)}
        got == get_by_email(accounts, profiles, e)
    IN IF same = {}
       THEN got = None
       ELSE \A a \in same :
              /\ got.kind = "User"
              /\ got.id = a.id
              /\ got.email = a.email

\* An account is stored, a lookup with another spelling of its email found
\* it, and a lookup with an unregistered email found nothing.
C6_Witness ==
  \E p, q \in Procs : \E a \in accounts :
    /\ reg[p].pc = "done"
    /\ reg[p].result.kind = "ValueError"
    /\ reg[p].email # a.email
    /\ SameNormalizedEmail(reg[p].email, a.email)
    /\ reg[q].pc = "checked"
    /\ ~ \E b \in accounts : SameNormalizedEmail(reg[q].email, b.email)

(***************************************************************************)
(* Properties of the password-reset request                                *)
(***************************************************************************)

\* The database without the account a and its profile
WithoutAccount(a) ==
  [accounts |-> accounts \ {a}, profiles |-> profiles \ ProfileOf(profiles, a.id)]

\* C7: for two runs that differ only in whether an account exists for the
\* submitted email, what the requester of a password reset gets (message
\* and redirect target) is identical.
C7_AntiEnumeration ==
  \A e \in Emails : \A a \in accounts :
    SameNormalizedEmail(a.email, e)
    => /\ password_reset_request_view(accounts, profiles, e, now)
            = password_reset_request_view(WithoutAccount(a).accounts,
                                          WithoutAccount(a).profiles, e, now)
       /\ (resetResponse # None /\ resetResponse.email = e)
            => resetResponse.outcome
                 = password_reset_request_view(WithoutAccount(a).accounts,
                                               WithoutAccount(a).profiles, e, now)

\* A reset was requested for a registered email, spelled in another case.
C7_Witness ==
  /\ resetResponse # None
  /\ resetResponse.existed
  /\ \E a \in accounts :
       /\ SameNormalizedEmail(a.email, resetResponse.email)
       /\ a.email # resetResponse.email

\* C8: every password-reset request with a well-formed email completes
\* normally: the call of start_password_reset on the UserService returns
\* without raising and the request ends with the neutral message and a
\* redirect to password_reset_done.
C8_ResetRequestCompletes ==
  resetResponse # None
  => /\ resetResponse.outcome.kind = "response"
     /\ resetResponse.outcome.message = NeutralMessage
     /\ resetResponse.outcome.redirect = "password_reset_done"

\* C9: start_password_reset for an email that matches no account returns
\* None and issues no token, and afterwards no issued token verifies for an
\* account for which it did not verify before the call.
C9_UnknownEmailIssuesNothing ==
  [][( /\ lastStart' # lastStart
       /\ ~ \E a \in accounts : SameNormalizedEmail(a.email, lastStart'.email) )
     => /\ lastStart'.kind = "None"
        /\ issued' = issued
        /\ \A tk \in issued' : \A a \in accounts' :
             check_token(a, tk.token, now')
             => /\ tk \in issued
                /\ a \in accounts
                /\ check_token(a, tk.token, now)]_vars

\* The last call named an unregistered email while accounts and issued
\* tokens exist.
C9_Witness ==
  /\ lastStart # None
  /\ ~lastStart.matched
  /\ lastStart.kind = "None"
  /\ accounts # {}
  /\ \E tk \in issued : \E a \in accounts : check_token(a, tk.token, now)

\* C10: start_password_reset for an email that matches an account returns a
\* pair (uidb64, token); as long as the account row is unchanged and the
\* max age has not passed, uidb64 decodes to the account's id, the token
\* verifies against the account and the gate of the confirm view accepts
\* the pair for that account.
C10_IssuedPairPassesGate ==
  /\ (lastStart # None /\ lastStart.matched) => lastStart.kind = "pair"
  /\ \A r \in issued :
       /\ r.users # {}
       /\ \A u \in r.users :
            (u \in accounts /\ now - r.at <= PASSWORD_RESET_TIMEOUT)
            => /\ decode_uid(r.uidb64) = [ok |-> TRUE, value |-> u.id]
               /\ check_token(u, r.token, now)
               /\ password_reset_confirm_gate(accounts, r.uidb64, r.token, now)
                    = [kind |-> "accepted", user_id |-> u.id]

\* A pair issued for the second account, asked for with another spelling of
\* its email, is presented on the last day of its validity.
C10_Witness ==
  \E r \in issued : \E u \in r.users :
    /\ u \in accounts
    /\ u.id > 1
    /\ u.email # r.email
    /\ now - r.at = PASSWORD_RESET_TIMEOUT

(***************************************************************************)
(* Properties of issued tokens                                             *)
(***************************************************************************)

\* How often account id occurs in the log ss
Occurrences(ss, id) == Cardinality({i \in DOMAIN ss : ss[i] = id})

\* The account of an issued pair has logged in since the pair was issued
LoggedInSince(r, u) ==
  /\ \E old \in r.users : old.id = u.id
  /\ Occurrences(sessions, u.id) > Occurrences(r.sessions, u.id)

\* C11: a token issued for an account before a successful login of that
\* account fails check_token at every point after that login.
C11_LoginInvalidatesToken ==
  \A r \in issued : \A u \in accounts :
    LoggedInSince(r, u) => ~ check_token(u, r.token, now)

\* A password change of the account of an issued pair has completed since
\* the pair was issued
PasswordChangedSince(r, u) ==
  /\ \E old \in r.users : old.id = u.id
  /\ Occurrences(passwordChanges, u.id) > Occurrences(r.changes, u.id)

\* C12: once set_password or finish_password_reset has completed for an
\* account, every pair issued for the account before it is turned away by
\* the confirm view, also when the new password equals the old one.
C12_PasswordChangeInvalidatesTokens ==
  \A r \in issued : \A u \in accounts :
    PasswordChangedSince(r, u) =>
      /\ ~ check_token(u, r.token, now)
      /\ password_reset_confirm_gate(accounts, r.uidb64, r.token, now) = None

\* A pair was issued, then finish_password_reset stored the password the
\* account already had
C12_Witness ==
  \E r \in issued : \E u \in accounts :
    /\ PasswordChangedSince(r, u)
    /\ lastCall.op = "finish_password_reset"
    /\ lastCall.outcome = "ok"
    /\ lastCall.user_id = u.id
    /\ \E old \in r.users : old.id = u.id /\ old.password.raw = u.password.raw

\* C13: a token that verifies at issuance fails check_token at every time
\* later than issuance plus PASSWORD_RESET_TIMEOUT, the account unchanged.
C13_TokenExpires ==
  \A r \in issued : \A u \in accounts :
    (u \in r.users /\ check_token(u, r.token, r.at)
       /\ now > r.at + PASSWORD_RESET_TIMEOUT)
    => /\ ~ check_token(u, r.token, now)
       /\ password_reset_confirm_gate(accounts, r.uidb64, r.token, now) = None

\* The clock has passed the maximum age of a pair whose account is as it
\* was at issuance
C13_Witness ==
  \E r \in issued : \E u \in accounts :
    /\ u \in r.users
    /\ check_token(u, r.token, r.at)
    /\ now > r.at + PASSWORD_RESET_TIMEOUT

(***************************************************************************)
(* Properties of the password change                                       *)
(***************************************************************************)

\* The row with primary key id
RowOf(accs, id) == CHOOSE a \in accs : a.id = id

\* This step is a call of finish_password_reset that completed
FinishCompleted ==
  /\ lastCall' # lastCall
  /\ lastCall' # None
  /\ lastCall'.op = "finish_password_reset"
  /\ lastCall'.outcome = "ok"

\* C14 as stated: after finish_password_reset(id, new) completes, the new
\* password authenticates the account and its previous raw password does
\* not, for every previous and new password.
C14_NewPasswordReplacesOld ==
  [][FinishCompleted =>
       LET old == RowOf(accounts, lastCall'.user_id)
           new == RowOf(accounts', lastCall'.user_id)
       IN /\ authenticate(accounts', new.username, lastCall'.password) = new
          /\ authenticate(accounts', new.username, old.password.raw) = None]_vars

\* C14, amended: the same for an active account and a new password that
\* differs from the previous one.
C14_NewPasswordReplacesDistinctOld ==
  [][FinishCompleted =>
       LET old == RowOf(accounts, lastCall'.user_id)
           new == RowOf(accounts', lastCall'.user_id)
       IN (old.is_active /\ old.password.raw # lastCall'.password) =>
            /\ authenticate(accounts', new.username, lastCall'.password) = new
            /\ authenticate(accounts', new.username, old.password.raw) = None]_vars

\* The first password change of Ann's active account, from "pw1" to "pw2",
\* was a finish_password_reset
C14_Witness ==
  /\ lastCall # None
  /\ lastCall.op = "finish_password_reset"
  /\ lastCall.outcome = "ok"
  /\ passwordChanges = <<lastCall.user_id>>
  /\ \E u \in accounts :
       /\ u.id = lastCall.user_id
       /\ u.is_active
       /\ u.first_name = "Ann"
       /\ lastCall.password = "pw2"
       /\ u.password = make_password("pw2", lastCall.salt)

\* This step is a call of set_password or finish_password_reset with an id
\* that no row has
PasswordCallUnknownId ==
  /\ lastCall' # lastCall
  /\ lastCall' # None
  /\ lastCall'.op \in {"set_password", "finish_password_reset"}
  /\ \A a \in accounts : a.id # lastCall'.user_id

\* C15: set_password and finish_password_reset with an id that matches no
\* account fail with the not-found error (UserModel.DoesNotExist) and leave
\* every account and profile as it was.
C15_UnknownIdFailsNotFound ==
  [][PasswordCallUnknownId =>
       /\ lastCall'.outcome = "DoesNotExist"
       /\ accounts' = accounts
       /\ profiles' = profiles
       /\ passwordChanges' = passwordChanges]_vars

\* set_password was called with an id beside the one registered account
C15_Witness ==
  /\ lastCall # None
  /\ lastCall.op = "set_password"
  /\ lastCall.outcome = "DoesNotExist"
  /\ accounts # {}
  /\ \A a \in accounts : a.id # lastCall.user_id

(***************************************************************************)
(* Properties of the reset link                                            *)
(***************************************************************************)

\* Request p went through the gate and through the call that stores the
\* password
Completed(p) == conf[p].pc = "done" /\ conf[p].gated

\* C16: two reset completions for one account, both past the token check
\* before either writes, both succeed, and the stored hash is that of one
\* of the two submitted passwords.
C16_ConcurrentCompletionsBothSucceed ==
  \A p \in Procs : \A q \in Procs \ {p} :
    (Completed(p) /\ Completed(q) /\ conf[p].user_id = conf[q].user_id) =>
      /\ conf[p].outcome = PasswordUpdated
      /\ conf[q].outcome = PasswordUpdated
      /\ \E a \in accounts :
           /\ a.id = conf[p].user_id
           /\ a.password.raw \in {conf[p].new_password, conf[q].new_password}

\* The identifier does not decode
Malformed(uidb64) == ~ decode_uid(uidb64).ok

\* The identifier decodes to an id that no row has
NoSuchAccount(accs, uidb64) ==
  /\ decode_uid(uidb64).ok
  /\ \A a \in accs : a.id # decode_uid(uidb64).value

\* The identifier names a row and the token does not verify for it
TokenFails(accs, uidb64, token, t) ==
  /\ decode_uid(uidb64).ok
  /\ \E a \in accs : a.id = decode_uid(uidb64).value /\ ~ check_token(a, token, t)

\* This step is a reset link followed to its answer
ConfirmStep ==
  /\ lastCall' # lastCall
  /\ lastCall' # None
  /\ lastCall'.op = "confirm"

\* C17: a malformed identifier, the identifier of no account and a token
\* that fails all end the same way: no exception, the one "Invalid or
\* expired" message with its redirect, and no password changed.
C17_RejectionsIndistinguishable ==
  [][ConfirmStep =>
       LET uidb64 == lastCall'.uidb64
           token == lastCall'.token
       IN (\/ Malformed(uidb64)
           \/ NoSuchAccount(accounts, uidb64)
           \/ TokenFails(accounts, uidb64, token, now))
          => /\ lastCall'.outcome = InvalidLink
             /\ accounts' = accounts
             /\ profiles' = profiles
             /\ passwordChanges' = passwordChanges]_vars

\* An issued pair was followed after its maximum age and turned away
C17_Witness ==
  /\ lastCall # None
  /\ lastCall.op = "confirm"
  /\ lastCall.outcome = InvalidLink
  /\ \E r \in issued :
       /\ lastCall.uidb64 = r.uidb64
       /\ lastCall.token = r.token
       /\ now > r.at + PASSWORD_RESET_TIMEOUT
       /\ TokenFails(accounts, r.uidb64, r.token, now)

(***************************************************************************)
(* Properties of login                                                     *)
(***************************************************************************)

\* This step opens a session
SessionOpened == sessions' # sessions

\* This step is a login that was turned away
LoginRejected ==
  /\ lastCall' # lastCall
  /\ lastCall' # None
  /\ lastCall'.op = "login"
  /\ lastCall'.outcome # "Logged in successfully."

\* C18: a session is opened only for an account that is active, whose
\* submitted username and password match, and that get_user_for_login
\* returns for its email; a login that is turned away changes no account
\* state.
C18_LoginOnlyActiveAuthenticated ==
  [][/\ SessionOpened =>
          /\ lastCall' # None
          /\ lastCall'.op = "login"
          /\ \E u \in accounts :
               /\ sessions' = Append(sessions, u.id)
               /\ u.is_active
               /\ u.username = lastCall'.username
               /\ check_password(lastCall'.password, u.password)
               /\ get_user_for_login(accounts, profiles, u.email) # None
     /\ LoginRejected =>
          /\ accounts' = accounts
          /\ profiles' = profiles
          /\ sessions' = sessions]_vars

\* An account logged in, was deactivated, and was then turned away with its
\* own password
C18_Witness ==
  /\ lastCall # None
  /\ lastCall.op = "login"
  /\ lastCall.outcome # "Logged in successfully."
  /\ \E u \in accounts :
       /\ ~ u.is_active
       /\ u.username = lastCall.username
       /\ check_password(lastCall.password, u.password)
       /\ sessions = <<u.id>>

(***************************************************************************)
(* Properties of the reset mail                                            *)
(***************************************************************************)

\* This step is a call of send_password_reset_email
MailStep ==
  /\ lastCall' # lastCall
  /\ lastCall' # None
  /\ lastCall'.op = "send_password_reset_email"

\* C19: send_password_reset_email returns normally whether or not the
\* transport delivers and whether or not an account has to_email, and
\* changes no account state.
C19_MailNeverPropagates ==
  [][MailStep =>
       /\ lastCall'.outcome.kind = "returned"
       /\ accounts' = accounts
       /\ profiles' = profiles]_vars

(***************************************************************************)
(* Properties of the stored email                                          *)
(***************************************************************************)

\* C20: the stored email of every account equals its own lowercase form,
\* whatever letter case register_user or create_user_with_profile was given.
C20_StoredEmailLowercase ==
  \A a \in accounts : a.email = Lower(a.email)

\* create_user_with_profile has inserted the row of an email that was
\* passed with a capital letter
C20_Witness ==
  \E p \in Procs :
    /\ reg[p].pc = "user_inserted"
    /\ reg[p].email # Lower(reg[p].email)
    /\ \E a \in accounts : a.id = reg[p].uid /\ a.email = Lower(reg[p].email)

(***************************************************************************)
(* Properties of the stored password                                       *)
(***************************************************************************)

\* The value is what make_password gives for some raw password and a salt
\* drawn so far
IsPasswordHash(stored) ==
  \E raw \in Passwords, salt \in 1..(nextSalt - 1) :
    stored = make_password(raw, salt)

\* C21: the stored password of every account is the output of the salted
\* one-way hash and never the raw password, after create_user_with_profile
\* and after set_password.
C21_PasswordStoredHashed ==
  \A a \in accounts : IsPasswordHash(a.password)

\* An account was created and set_password then stored a second hash for it
C21_Witness ==
  /\ lastCall # None
  /\ lastCall.op = "set_password"
  /\ lastCall.outcome = "ok"
  /\ \E a \in accounts :
       /\ a.id = lastCall.user_id
       /\ a.password = make_password(lastCall.password, lastCall.salt)
       /\ lastCall.salt > 1

PasswordStep ==
  /\ lastCall' # lastCall
  /\ lastCall' # None
  /\ lastCall'.op \in {"set_password", "finish_password_reset"}

\* C23: set_password and finish_password_reset change only the password
\* hash of the target account; every other field of it, its profile, and
\* every other account and profile stay as they were.
C23_PasswordChangeFrame ==
  [][PasswordStep =>
       /\ profiles' = profiles
       /\ Cardinality(accounts') = Cardinality(accounts)
       /\ \A a \in accounts :
            IF a.id = lastCall'.user_id
            THEN \E b \in accounts' : [b EXCEPT !.password = a.password] = a
            ELSE a \in accounts']_vars

\* Of two accounts with profiles, one was deactivated and the other then
\* got a new hash from set_password
C23_Witness ==
  /\ lastCall # None
  /\ lastCall.op = "set_password"
  /\ lastCall.outcome = "ok"
  /\ Cardinality(accounts) = 2
  /\ \E a \in accounts : \E b \in accounts :
       /\ a.id = lastCall.user_id
       /\ a.password.salt = lastCall.salt
       /\ ProfileOf(profiles, a.id) # {}
       /\ b.id # a.id
       /\ ~ b.is_active

(***************************************************************************)
(* Properties of the identifier codec                                      *)
(***************************************************************************)

\* C24: decoding encode_user_id(id) the way the confirm view decodes uidb64
\* gives id back, for every account id.
C24_IdentifierRoundTrip ==
  (lastCall # None /\ lastCall.op = "decode_uid") =>
    /\ lastCall.uid.ok
    /\ lastCall.uid.value = lastCall.pk

\* A four-digit id, whose text leaves a rest of one byte, went through
\* both directions
C24_Witness ==
  /\ lastCall # None
  /\ lastCall.op = "decode_uid"
  /\ lastCall.pk > 999
  /\ Len(lastCall.uidb64) = 6
  /\ lastCall.uid.ok

(***************************************************************************)
(* Properties of the lookups                                               *)
(***************************************************************************)

\* C25: get_user_for_login(email) returns an account only when an account
\* with that email exists and is active, and absence for an inactive one.
C25_GetUserForLoginActiveOnly ==
  \A email \in Emails :
    LET found == get_user_for_login(accounts, profiles, email)
    IN /\ found # None =>
            \E a \in accounts : IExact(a.email, email) /\ a.id = found.id
                                  /\ a.is_active
       /\ (\E a \in accounts : IExact(a.email, email) /\ ~ a.is_active) =>
            found = None

\* C26: the link send_password_reset_email composes for an existing
\* account and a token just issued for it is accepted by the confirm view:
\* its identifier segment decodes to the account's id and its token segment
\* verifies, the account unchanged and the token within its maximum age.
C26_MailedLinkAccepted ==
  (/\ lastCall # None
   /\ lastCall.op = "send_password_reset_email"
   /\ lastCall.outcome.kind = "returned") =>
    \A r \in issued : \A u \in accounts :
      (/\ IExact(u.email, lastCall.to_email)
       /\ u \in r.users
       /\ r.token = lastCall.outcome.link.token
       /\ ~ (now - r.at > PASSWORD_RESET_TIMEOUT)) =>
        /\ decode_uid(lastCall.outcome.link.uidb64) = [ok |-> TRUE, value |-> u.id]
        /\ password_reset_confirm_gate(accounts, lastCall.outcome.link.uidb64,
                                       lastCall.outcome.link.token, now)
             = [kind |-> "accepted", user_id |-> u.id]

\* C27: a token issued by start_password_reset for one account never
\* passes the gate of the confirm view together with the encoded identifier
\* of another account.
C27_TokenBoundToAccount ==
  \A r \in issued : \A b \in accounts :
    (\A u \in r.users : u.id # b.id) =>
      password_reset_confirm_gate(accounts, encode_user_id(b.id), r.token, now)
        = None

\* Two accounts exist and a pair issued for one of them is still accepted
\* with its own identifier
C27_Witness ==
  \E r \in issued : \E b \in accounts :
    /\ \A u \in r.users : u.id # b.id
    /\ r.users # {}
    /\ password_reset_confirm_gate(accounts, r.uidb64, r.token, now) # None

\* The tables after UserService.get_user_for_login(email): one read through
\* repo.get_by_email, nothing saved.
get_user_for_login_tables(accs, profs, email) ==
  [accounts |-> accs, profiles |-> profs]

\* A call of user_service.get_user_for_login(email)
GetUserForLogin ==
  /\ \E email \in Emails :
       LET tables == get_user_for_login_tables(accounts, profiles, email)
       IN /\ lastCall' = [op |-> "get_user_for_login", email |-> email,
                          outcome |-> get_user_for_login(accounts, profiles, email)]
          /\ accounts' = tables.accounts
          /\ profiles' = tables.profiles
  /\ UNCHANGED <<nextId, nextSalt, now, reg, resetVars, sessions,
                 passwordChanges, conf>>

\* Registrations, the two read-only service calls and the clock
NextReadOnly ==
  \/ ScopedRegister
  \/ StartPasswordReset
  \/ GetUserForLogin
  \/ ScopedTick

SpecReadOnly == Init /\ [][NextReadOnly]_vars

\* A step in which start_password_reset or get_user_for_login has run
ReadOnlyStep ==
  \/ lastStart' # lastStart
  \/ issued' # issued
  \/ /\ lastCall' # lastCall
     /\ lastCall' # None
     /\ lastCall'.op = "get_user_for_login"

\* C28: start_password_reset and get_user_for_login write nothing: the
\* account and profile rows are the same after the call, and every pair
\* issued earlier passes the gate after the call exactly as before it.
C28_ReadsWriteNothing ==
  [][ReadOnlyStep =>
       /\ accounts' = accounts
       /\ profiles' = profiles
       /\ \A r \in issued :
            password_reset_confirm_gate(accounts', r.uidb64, r.token, now')
              = password_reset_confirm_gate(accounts, r.uidb64, r.token, now)]_vars

\* Two pairs were issued for one account at different times, both are still
\* accepted, and get_user_for_login has found the account since
C28_Witness ==
  /\ \E r1 \in issued : \E r2 \in issued :
       /\ r1.users = r2.users
       /\ r1.at < r2.at
       /\ password_reset_confirm_gate(accounts, r1.uidb64, r1.token, now) # None
       /\ password_reset_confirm_gate(accounts, r2.uidb64, r2.token, now) # None
  /\ lastCall # None
  /\ lastCall.op = "get_user_for_login"
  /\ lastCall.outcome # None

====
